---- MODULE Spec2Model ----
(***************************************************************************)
(* Cake Time: an Alexa skill that remembers a user's birthday and, on      *)
(* launch, speaks a countdown to the next birthday or a greeting.          *)
(* Model of lambda/lambda_function.py: the request handlers, their         *)
(* registration order, the catch-all exception handler, the persisted      *)
(* birthday attributes and the date arithmetic of the countdown.           *)
(*                                                                         *)
(* Python strings are sequences of one-character strings, so that slicing, *)
(* str.title(), int() and str() are computed and not assumed.              *)
(***************************************************************************)
EXTENDS Integers, Sequences, FiniteSets, TLC

(***************************************************************************)
(* Bounds of the model.                                                    *)
(***************************************************************************)
\* The current instant is drawn from the years FirstYear..LastYear.
FirstYear == 2023

LastYear == 2024

(***************************************************************************)
(* Python values.                                                          *)
(***************************************************************************)
\* A str value.
Str(chars) == [none |-> FALSE, s |-> chars]

\* None (a slot the user did not fill has value None).
None == [none |-> TRUE, s |-> <<>>]

Lower == <<"a","b","c","d","e","f","g","h","i","j","k","l","m",
           "n","o","p","q","r","s","t","u","v","w","x","y","z">>

Upper == <<"A","B","C","D","E","F","G","H","I","J","K","L","M",
           "N","O","P","Q","R","S","T","U","V","W","X","Y","Z">>

Digits == <<"0","1","2","3","4","5","6","7","8","9">>

IsLower(c) == \E i \in 1..Len(Lower) : Lower[i] = c

IsUpper(c) == \E i \in 1..Len(Upper) : Upper[i] = c

IsCased(c) == IsLower(c) \/ IsUpper(c)

IsDigit(c) == \E i \in 1..Len(Digits) : Digits[i] = c

ToUpper(c) == IF IsLower(c) THEN Upper[CHOOSE i \in 1..Len(Lower) : Lower[i] = c] ELSE c

ToLower(c) == IF IsUpper(c) THEN Lower[CHOOSE i \in 1..Len(Upper) : Upper[i] = c] ELSE c

DigitVal(c) == (CHOOSE i \in 1..Len(Digits) : Digits[i] = c) - 1

\* s[:n]
Prefix(s, n) == SubSeq(s, 1, IF Len(s) < n THEN Len(s) ELSE n)

\* s.title(): a cased character is upper-cased when it follows an uncased
\* one (or starts the string) and lower-cased when it follows a cased one.
RECURSIVE TitleFrom(_, _, _)
TitleFrom(s, i, prevCased) ==
    IF i > Len(s) THEN <<>>
    ELSE LET c == s[i]
         IN  IF IsCased(c)
             THEN <<IF prevCased THEN ToLower(c) ELSE ToUpper(c)>> \o TitleFrom(s, i + 1, TRUE)
             ELSE <<c>> \o TitleFrom(s, i + 1, FALSE)

Title(s) == TitleFrom(s, 1, FALSE)

\* The value of a string of decimal digits.
RECURSIVE DigitsValue(_)
DigitsValue(s) ==
    IF s = <<>> THEN 0
    ELSE 10 * DigitsValue(SubSeq(s, 1, Len(s) - 1)) + DigitVal(s[Len(s)])

AllDigits(s) == s # <<>> /\ \A i \in 1..Len(s) : IsDigit(s[i])

\* int(v): TypeError on None, ValueError on text that is no integer literal.
IntRaises(v) ==
    IF v.none THEN "TypeError"
    ELSE IF AllDigits(v.s) \/ (Len(v.s) > 1 /\ v.s[1] = "-" /\ AllDigits(Tail(v.s)))
         THEN "none"
         ELSE "ValueError"

IntOf(v) ==
    IF v.s[1] = "-" THEN 0 - DigitsValue(Tail(v.s)) ELSE DigitsValue(v.s)

\* str(n) for an integer n.
RECURSIVE NatToStr(_)
NatToStr(n) ==
    IF n < 10 THEN <<Digits[n + 1]>>
    ELSE NatToStr(n \div 10) \o <<Digits[(n % 10) + 1]>>

IntToStr(n) == IF n < 0 THEN <<"-">> \o NatToStr(0 - n) ELSE NatToStr(n)

(***************************************************************************)
(* calendar.month_abbr and datetime.                                       *)
(***************************************************************************)
\* list(calendar.month_abbr): index 0 is the empty string.
month_abbr ==
    << <<>>,
       <<"J","a","n">>, <<"F","e","b">>, <<"M","a","r">>, <<"A","p","r">>,
       <<"M","a","y">>, <<"J","u","n">>, <<"J","u","l">>, <<"A","u","g">>,
       <<"S","e","p">>, <<"O","c","t">>, <<"N","o","v">>, <<"D","e","c">> >>

\* x in list
InList(list, x) == \E i \in 1..Len(list) : list[i] = x

\* list.index(x), 0-based, for x in list.
ListIndex(list, x) ==
    (CHOOSE i \in 1..Len(list) :
        list[i] = x /\ \A j \in 1..(i - 1) : list[j] # x) - 1

IsLeap(y) == (y % 4 = 0) /\ ((y % 100 # 0) \/ (y % 400 = 0))

\* Mutant: February has 29 days in every year.
DaysInMonthNoLeap(y, m) ==
    IF m = 2 THEN 29
    ELSE IF m \in {4, 6, 9, 11} THEN 30 ELSE 31

DaysInMonth(y, m) ==
    IF m = 2 THEN (IF IsLeap(y) THEN 29 ELSE 28)
    ELSE IF m \in {4, 6, 9, 11} THEN 30 ELSE 31

\* datetime(y, m, d) raises ValueError unless this holds.
ValidDate(y, m, d) ==
    /\ y \in 1..9999
    /\ m \in 1..12
    /\ d \in 1..DaysInMonth(y, m)

\* datetime(y, m, d): midnight of that day.
DateTime(y, m, d) == [year |-> y, month |-> m, day |-> d, hour |-> 0]

RECURSIVE DaysBeforeMonth(_, _)
DaysBeforeMonth(y, m) ==
    IF m <= 1 THEN 0 ELSE DaysBeforeMonth(y, m - 1) + DaysInMonth(y, m - 1)

DaysBeforeYear(y) ==
    LET p == y - 1
    IN  p * 365 + (p \div 4) - (p \div 100) + (p \div 400)

\* date.toordinal()
ToOrdinal(t) == DaysBeforeYear(t.year) + DaysBeforeMonth(t.year, t.month) + t.day

\* Hours since the start of day 0 of the proleptic calendar.
Hours(t) == ToOrdinal(t) * 24 + t.hour

\* a > b on naive datetimes: field by field.
After(a, b) ==
    \/ a.year > b.year
    \/ a.year = b.year /\ a.month > b.month
    \/ a.year = b.year /\ a.month = b.month /\ a.day > b.day
    \/ a.year = b.year /\ a.month = b.month /\ a.day = b.day /\ a.hour > b.hour

\* (a - b).days: timedelta normalises to whole days, rounding down.
DeltaDays(a, b) == (Hours(a) - Hours(b)) \div 24

Abs(n) == IF n < 0 THEN 0 - n ELSE n

(***************************************************************************)
(* Requests, responses and the persisted attributes.                       *)
(***************************************************************************)
AttrKeys == {"year", "month", "day"}

\* persistent_attributes of a user with nothing stored: the empty dict.
NoAttributes == [k \in {} |-> None]

NoTime == [year |-> 0, month |-> 0, day |-> 0, hour |-> 0]

NoSlots == NoAttributes

\* A fixed sentence.
Say(text) ==
    [words |-> <<text>>, days |-> 0, birthday_num |-> <<>>, suffix |-> "", born |-> <<>>]

NoSpeech ==
    [words |-> <<>>, days |-> 0, birthday_num |-> <<>>, suffix |-> "", born |-> <<>>]

\* response_builder.response after speak / ask / add_directive.
Response(speech, reprompt, directive) ==
    [speech |-> speech, reprompt |-> reprompt, directive |-> directive]

\* The directive is added only when the device supports APL (the
\* get_supported_interfaces check that closes each handler).
Directive(apl, datasources) == IF apl THEN datasources ELSE ""

\* The local variables of the launch computation, once it has run.
NoLocals ==
    [computed |-> FALSE, now_date |-> NoTime, month_as_index |-> 0,
     next_birthday |-> NoTime, current_year |-> 0, age |-> 0, ordinal |-> "",
     is_today |-> FALSE, diff_days |-> 0]

\* What a handler's handle() does: returns a response or raises.
Returns(resp, locals) == [raised |-> "none", response |-> resp, locals |-> locals]

Raises(exc) == [raised |-> exc, response |-> Response(NoSpeech, "", ""), locals |-> NoLocals]

(***************************************************************************)
(* HasBirthdayLaunchRequestHandler.handle, step by step.                   *)
(***************************************************************************)
\* Mutant: the time of day is kept.
NowDateKeepsTime(now_time) == now_time

\* now_date = datetime(now_time.year, now_time.month, now_time.day)
NowDate(now_time) == DateTime(now_time.year, now_time.month, now_time.day)

\* month[:3].title()
MonthKey(month) == Title(Prefix(month, 3))

\* Mutant: >= in place of >.
BirthdayPassedOrToday(now_date, next_birthday) ==
    After(now_date, next_birthday) \/ now_date = next_birthday

\* if now_date > next_birthday
BirthdayPassed(now_date, next_birthday) == After(now_date, next_birthday)

\* Mutant: the year is not advanced when the birthday has passed.
ReferenceYearNotAdvanced(current_year, passed) == current_year

\* current_year += 1 inside the branch for a birthday that has passed.
ReferenceYear(current_year, passed) == IF passed THEN current_year + 1 ELSE current_year

\* Mutant: 11, 12 and 13 get "th".
OrdinalWithTeens(age) ==
    LET last == age[Len(age)]
    IN  IF Len(age) >= 2 /\ age[Len(age) - 1] = "1" THEN "th"
        ELSE IF last = "1" THEN "st"
        ELSE IF last = "2" THEN "nd"
        ELSE IF last = "3" THEN "rd"
        ELSE "th"

\* The suffix chosen from age[-1], age being str(current_year - year).
Ordinal(age) ==
    LET last == age[Len(age)]
    IN  IF last = "1" THEN "st"
        ELSE IF last = "2" THEN "nd"
        ELSE IF last = "3" THEN "rd"
        ELSE "th"

\* if now_date != next_birthday
NotToday(now_date, next_birthday) == now_date # next_birthday

\* Mutant: the difference without abs().
DiffDaysSigned(now_date, next_birthday) == DeltaDays(now_date, next_birthday)

\* diff_days = abs((now_date - next_birthday).days)
DiffDays(now_date, next_birthday) == Abs(DeltaDays(now_date, next_birthday))

\* str.replace on the formatted sentence, word by word: in this sentence
\* "are" and "days" occur only as the whole words replaced here, and the
\* formatted numbers hold no letters.
Replace(words, old, new) ==
    [i \in 1..Len(words) |-> IF words[i] = old THEN new ELSE words[i]]

GreetingSpeech(age, ordinal) ==
    [words |-> <<"Happy", "{}{}", "birthday!">>,
     days |-> 0, birthday_num |-> age, suffix |-> ordinal, born |-> <<>>]

CountdownWords ==
    <<"Welcome", "back.", "It", "looks", "like", "there", "are", "{days}", "days",
      "until", "your", "{birthday_num}{suffix}", "birthday">>

\* Mutant: the grammar is adjusted for a count of at most one day.
CountdownSpeechUpToOne(diff_days, age, ordinal) ==
    [words |-> IF diff_days = 1
               THEN Replace(Replace(CountdownWords, "are", "is"), "day", "day")
               ELSE CountdownWords,
     days |-> diff_days, birthday_num |-> age, suffix |-> ordinal, born |-> <<>>]

CountdownSpeech(diff_days, age, ordinal) ==
    [words |-> IF diff_days = 1
               THEN Replace(Replace(CountdownWords, "are", "is"), "days", "day")
               ELSE CountdownWords,
     days |-> diff_days, birthday_num |-> age, suffix |-> ordinal, born |-> <<>>]

ConnectionProblem == Say("There was a problem connecting to the service")

\* The part of handle() after the time zone is known.
ComputeBirthday(year, month, day, now_time, apl) ==
    LET now_date == NowDate(now_time)
        current_year == now_time.year
    IN  IF month.none THEN Raises("TypeError")
        ELSE IF ~InList(month_abbr, MonthKey(month.s)) THEN Raises("ValueError")
        ELSE
        LET month_as_index == ListIndex(month_abbr, MonthKey(month.s))
        IN  IF ~ValidDate(current_year, month_as_index, day) THEN Raises("ValueError")
            ELSE
            LET this_year == DateTime(current_year, month_as_index, day)
                passed == BirthdayPassed(now_date, this_year)
            IN  IF passed /\ ~ValidDate(current_year + 1, month_as_index, day)
                THEN Raises("ValueError")
                ELSE
                LET next_birthday == IF passed
                                     THEN DateTime(current_year + 1, month_as_index, day)
                                     ELSE this_year
                    reference == ReferenceYear(current_year, passed)
                    age == IntToStr(reference - year)
                    ordinal == Ordinal(age)
                    countdown == NotToday(now_date, next_birthday)
                    diff_days == DiffDays(now_date, next_birthday)
                    locals == [computed |-> TRUE, now_date |-> now_date,
                               month_as_index |-> month_as_index,
                               next_birthday |-> next_birthday,
                               current_year |-> reference,
                               age |-> reference - year, ordinal |-> ordinal,
                               is_today |-> ~countdown, diff_days |-> diff_days]
                IN  IF countdown
                    THEN Returns(Response(CountdownSpeech(diff_days, age, ordinal), "",
                                          Directive(apl, "birthdayCountdownDataSources.json")),
                                 locals)
                    ELSE Returns(Response(GreetingSpeech(age, ordinal), "",
                                          Directive(apl, "hasBirthdayDataSources.json")),
                                 locals)

\* int(attr['year']) and int(attr['day']) return, so the handler goes on to
\* call the Settings API.
ReachesLookup(attr) == IntRaises(attr["year"]) = "none" /\ IntRaises(attr["day"]) = "none"

\* Mutant: the except block does not return, and handle() goes on with
\* userTimeZone = "".
HasBirthdayHandleNoReturn(attr, tz, now_time, apl) ==
    IF IntRaises(attr["year"]) # "none" THEN Raises(IntRaises(attr["year"]))
    ELSE IF IntRaises(attr["day"]) # "none" THEN Raises(IntRaises(attr["day"]))
    ELSE IF tz = "raises" \/ tz = "unusable" THEN Raises("UnknownTimeZoneError")
    ELSE ComputeBirthday(IntOf(attr["year"]), attr["month"], IntOf(attr["day"]),
                         now_time, apl)

\* tz is what the Settings API call did: "ok" (a usable time zone name),
\* "raises" (requests.get or r.json() raised) or "unusable" (a reply that
\* pytz.timezone rejects, outside the try block).
HasBirthdayHandle(attr, tz, now_time, apl) ==
    IF IntRaises(attr["year"]) # "none" THEN Raises(IntRaises(attr["year"]))
    ELSE IF IntRaises(attr["day"]) # "none" THEN Raises(IntRaises(attr["day"]))
    ELSE IF tz = "raises" THEN Returns(Response(ConnectionProblem, "", ""), NoLocals)
    ELSE IF tz = "unusable" THEN Raises("UnknownTimeZoneError")
    ELSE ComputeBirthday(IntOf(attr["year"]), attr["month"], IntOf(attr["day"]),
                         now_time, apl)

(***************************************************************************)
(* The other handlers' handle().                                           *)
(***************************************************************************)
\* Mutant: a slot the user left unfilled gets no key.
BirthdayAttributesFilledOnly(slots) ==
    [k \in {a \in AttrKeys : ~slots[a].none} |-> slots[k]]

\* birthday_attributes = {"year": year, "month": month, "day": day}
BirthdayAttributes(slots) ==
    [year |-> slots["year"], month |-> slots["month"], day |-> slots["day"]]

ThanksSpeech(slots) ==
    [words |-> <<"Thanks, I will remember that you were born {month} {day} {year}.">>,
     days |-> 0, birthday_num |-> <<>>, suffix |-> "",
     born |-> <<slots["month"], slots["day"], slots["year"]>>]

\* save is what save_persistent_attributes() did: "ok" or "raises".
CaptureBirthdayHandle(slots, save, apl) ==
    IF save = "raises" THEN Raises("PersistenceException")
    ELSE Returns(Response(ThanksSpeech(slots), "",
                          Directive(apl, "captureBirthdayDataSources.json")), NoLocals)

\* Mutant: only the slots the user filled replace what is stored.
CaptureBirthdayStoreMerged(attr, slots, save) ==
    IF save = "raises" THEN attr
    ELSE [k \in AttrKeys |->
            IF slots[k].none /\ k \in DOMAIN attr THEN attr[k] ELSE slots[k]]

\* What the S3 bucket holds after CaptureBirthdayIntentHandler.handle.
CaptureBirthdayStore(attr, slots, save) ==
    IF save = "raises" THEN attr ELSE BirthdayAttributes(slots)

Prompt == Say("Hello! This is Cake Time. What is your birthday?")

RepromptText == "I was born Nov. 6th, 2014. When were you born?"

LaunchHandle(apl) ==
    Returns(Response(Prompt, RepromptText, Directive(apl, "launchDataSources.json")), NoLocals)

HelpHandle(apl) ==
    Returns(Response(Say("If you accidentally entered the wrong birthday, you can change it by saying, 'Alexa, tell Cake Time I was born on, and then say the month day and year of your birthday."),
                     RepromptText, Directive(apl, "captureBirthdayDataSources.json")), NoLocals)

CancelOrStopHandle(apl) ==
    Returns(Response(Say("later dude!"), "", Directive(apl, "sessionEndDataSources.json")),
            NoLocals)

FallbackHandle ==
    Returns(Response(Say("Hmm, I'm not sure. You can say Hello or Help. What would you like to do?"),
                     "", ""), NoLocals)

SessionEndedHandle == Returns(Response(NoSpeech, "", ""), NoLocals)

IntentReflectorHandle(intent) ==
    Returns(Response([words |-> <<"You just triggered ", intent, ".">>, days |-> 0,
                      birthday_num |-> <<>>, suffix |-> "", born |-> <<>>], "", ""),
            NoLocals)

Sorry == Say("Sorry, I had trouble doing what you asked. Please try again.")

\* Mutant: the handler accepts only ValueError.
CatchAllOnlyValueError(exc) == exc = "ValueError"

\* CatchAllExceptionHandler.can_handle
CatchAllCanHandle(exc) == TRUE

(***************************************************************************)
(* Routing: the handlers in the order of sb.add_request_handler.           *)
(***************************************************************************)
IsRequestType(request, type) == request.type = type

IsIntentName(request, name) ==
    request.type = "IntentRequest" /\ request.intent = name

\* Mutant: LaunchRequestHandler is registered first.
HandlersLaunchFirst ==
    <<"LaunchRequestHandler",
      "HasBirthdayLaunchRequestHandler",
      "CaptureBirthdayIntentHandler",
      "HelpIntentHandler",
      "CancelOrStopIntentHandler",
      "FallbackIntentHandler",
      "SessionEndedRequestHandler",
      "IntentReflectorHandler">>

Handlers ==
    <<"HasBirthdayLaunchRequestHandler",
      "LaunchRequestHandler",
      "CaptureBirthdayIntentHandler",
      "HelpIntentHandler",
      "CancelOrStopIntentHandler",
      "FallbackIntentHandler",
      "SessionEndedRequestHandler",
      "IntentReflectorHandler">>

\* can_handle of each handler class; attr is the persistent_attributes read.
CanHandle(h, request, attr) ==
    CASE h = "HasBirthdayLaunchRequestHandler" ->
            /\ "year" \in DOMAIN attr /\ "month" \in DOMAIN attr /\ "day" \in DOMAIN attr
            /\ IsRequestType(request, "LaunchRequest")
      [] h = "LaunchRequestHandler" -> IsRequestType(request, "LaunchRequest")
      [] h = "CaptureBirthdayIntentHandler" -> IsIntentName(request, "CaptureBirthdayIntent")
      [] h = "HelpIntentHandler" -> IsIntentName(request, "AMAZON.HelpIntent")
      [] h = "CancelOrStopIntentHandler" ->
            \/ IsIntentName(request, "AMAZON.CancelIntent")
            \/ IsIntentName(request, "AMAZON.StopIntent")
      [] h = "FallbackIntentHandler" -> IsIntentName(request, "AMAZON.FallbackIntent")
      [] h = "SessionEndedRequestHandler" -> IsRequestType(request, "SessionEndedRequest")
      [] h = "IntentReflectorHandler" -> IsRequestType(request, "IntentRequest")

\* The first registered handler whose can_handle accepts the request; "" when
\* none does. Reading the attributes is the first thing the first can_handle
\* does, for a request of any type: when that load raises, no handler is
\* chosen and the exception goes to the exception handlers.
Route(request, attr, load) ==
    IF load = "raises" THEN ""
    ELSE IF \A i \in 1..Len(Handlers) : ~CanHandle(Handlers[i], request, attr) THEN ""
    ELSE Handlers[CHOOSE i \in 1..Len(Handlers) :
                    /\ CanHandle(Handlers[i], request, attr)
                    /\ \A j \in 1..(i - 1) : ~CanHandle(Handlers[j], request, attr)]

\* What the dispatcher raises when no handler is chosen.
RouteRaises(load) == IF load = "raises" THEN "PersistenceException" ELSE "DispatchException"

(***************************************************************************)
(* The inputs the model draws.                                             *)
(***************************************************************************)
Nov == <<"n","o","v">>

Y2014 == <<"2","0","1","4">>

YearTexts == {Y2014, <<"2","0","1","2">>, <<"2","0","2","5">>}

\* Month and day texts that name a date of every year or of leap years.
Birthdays ==
    {<<Nov, <<"6">>>>,
     <<<<"F","E","B","R","U","A","R","Y">>, <<"2","9">>>>,
     <<<<"J","a","n">>, <<"1">>>>,
     <<<<"d","e","c">>, <<"3","1">>>>}

\* Other spellings, texts that are no month name, and a day no month has.
OtherBirthdays ==
    {<<<<"N","o","v","e","m","b","e","r">>, <<"6">>>>,
     <<<<"F","e","b">>, <<"2","8">>>>,
     <<<<"J","u","n","k">>, <<"6">>>>,
     <<<<"J","u","n","k">>, <<"3","1">>>>,
     <<<<"S","m","a","r","c","h">>, <<"6">>>>,
     <<<<>>, <<"6">>>>}

\* The slots of a CaptureBirthdayIntent: well-formed ones, and ones with a
\* slot left unfilled or filled with text that is no number.
SlotValues ==
    {[year |-> Str(y), month |-> Str(b[1]), day |-> Str(b[2])] :
        y \in YearTexts, b \in Birthdays}
    \cup {[year |-> Str(Y2014), month |-> Str(b[1]), day |-> Str(b[2])] :
            b \in OtherBirthdays}
    \cup {[year |-> None, month |-> Str(Nov), day |-> Str(<<"6">>)],
          [year |-> Str(Y2014), month |-> None, day |-> Str(<<"6">>)],
          [year |-> Str(Y2014), month |-> Str(Nov), day |-> None],
          [year |-> Str(<<"M","M","X","I","V">>), month |-> Str(Nov), day |-> Str(<<"6">>)],
          [year |-> Str(Y2014), month |-> Str(Nov), day |-> Str(<<"0">>)]}

\* The days of the year the clock is read on.
MonthDays ==
    {<<1, 1>>, <<2, 28>>, <<2, 29>>, <<3, 1>>, <<11, 5>>, <<11, 6>>, <<12, 31>>}

\* datetime.now(timezone(userTimeZone)): the wall clock in the user's zone.
NowTimes ==
    {t \in {[year |-> y, month |-> md[1], day |-> md[2], hour |-> h] :
                y \in FirstYear..LastYear, md \in MonthDays, h \in {0, 23}} :
        ValidDate(t.year, t.month, t.day)}

\* What the Settings API call and the clock give a launch; tz is "" when the
\* handler raises before it makes the call.
Clocks ==
    {[tz |-> "ok", now_time |-> t] : t \in NowTimes}
    \cup {[tz |-> "raises", now_time |-> NoTime], [tz |-> "unusable", now_time |-> NoTime],
          [tz |-> "", now_time |-> NoTime]}

IntentNames ==
    {"AMAZON.HelpIntent", "AMAZON.CancelIntent", "AMAZON.StopIntent",
     "AMAZON.FallbackIntent", "AMAZON.NavigateHomeIntent"}

Launch(apl) ==
    [type |-> "LaunchRequest", intent |-> "", slots |-> NoSlots, apl |-> apl]

Intent(name, slots, apl) ==
    [type |-> "IntentRequest", intent |-> name, slots |-> slots, apl |-> apl]

Other(type, apl) == [type |-> type, intent |-> "", slots |-> NoSlots, apl |-> apl]

\* The requests routed to the handlers that read no slot.
Requests ==
    {Launch(apl) : apl \in BOOLEAN}
    \cup {Intent("CaptureBirthdayIntent",
                  [year |-> Str(Y2014), month |-> Str(Nov), day |-> Str(<<"6">>)], apl) :
            apl \in BOOLEAN}
    \cup {Intent(n, NoSlots, apl) : n \in IntentNames, apl \in BOOLEAN}
    \cup {Other(t, apl) : t \in {"SessionEndedRequest", "Alexa.Presentation.APL.UserEvent"},
                          apl \in BOOLEAN}

(***************************************************************************)
(* State.                                                                  *)
(***************************************************************************)
VARIABLES
    persistent,        \* the attributes the S3 bucket holds for the user
    request,           \* the request served last
    env,               \* what the store, the Settings API and the clock did during it
    handler,           \* the request handler whose handle() ran ("" when none)
    raised,            \* the exception raised while serving it ("none" when none)
    escaped,           \* TRUE when that exception left the skill unhandled
    responses,         \* the responses returned for it
    locals,            \* the launch computation's local variables
    captured,          \* history: some CaptureBirthdayIntent reached its handler
    saved              \* history: the slots of the last capture whose save returned

vars == <<persistent, request, env, handler, raised, escaped, responses, locals,
          captured, saved>>

NoRequest == [type |-> "", intent |-> "", slots |-> NoSlots, apl |-> FALSE]

Env(load, tz, now_time, save) ==
    [load |-> load, tz |-> tz, now_time |-> now_time, save |-> save]

Init ==
    /\ persistent = NoAttributes
    /\ request = NoRequest
    /\ env = Env("", "", NoTime, "")
    /\ handler = ""
    /\ raised = "none"
    /\ escaped = FALSE
    /\ responses = <<>>
    /\ locals = NoLocals
    /\ captured = FALSE
    /\ saved = NoAttributes

\* The dispatcher around handle(): an exception goes to the first exception
\* handler that accepts it, and its response is the request's response.
Serve(req, e, h, result) ==
    /\ request' = req
    /\ env' = e
    /\ handler' = h
    /\ raised' = result.raised
    /\ locals' = result.locals
    /\ IF result.raised = "none"
       THEN responses' = <<result.response>> /\ escaped' = FALSE
       ELSE IF CatchAllCanHandle(result.raised)
            THEN responses' = <<Response(Sorry, "", "")>> /\ escaped' = FALSE
            ELSE responses' = <<>> /\ escaped' = TRUE

HasBirthdayLaunchRequest ==
    \E apl \in BOOLEAN, c \in Clocks :
        /\ Route(Launch(apl), persistent, "ok") = "HasBirthdayLaunchRequestHandler"
        /\ (c.tz = "") <=> ~ReachesLookup(persistent)
        /\ Serve(Launch(apl), Env("ok", c.tz, c.now_time, ""),
                 "HasBirthdayLaunchRequestHandler",
                 HasBirthdayHandle(persistent, c.tz, c.now_time, apl))
        /\ UNCHANGED <<persistent, captured, saved>>

LaunchRequest ==
    \E apl \in BOOLEAN :
        /\ Route(Launch(apl), persistent, "ok") = "LaunchRequestHandler"
        /\ Serve(Launch(apl), Env("ok", "", NoTime, ""), "LaunchRequestHandler",
                 LaunchHandle(apl))
        /\ UNCHANGED <<persistent, captured, saved>>

CaptureBirthdayIntent ==
    \E sl \in SlotValues, apl \in BOOLEAN, save \in {"ok", "raises"} :
        LET req == Intent("CaptureBirthdayIntent", sl, apl)
        IN  /\ Route(req, persistent, "ok") = "CaptureBirthdayIntentHandler"
            /\ Serve(req, Env("ok", "", NoTime, save), "CaptureBirthdayIntentHandler",
                     CaptureBirthdayHandle(sl, save, apl))
            /\ persistent' = CaptureBirthdayStore(persistent, sl, save)
            /\ captured' = TRUE
            /\ saved' = IF save = "ok" THEN sl ELSE saved

HelpIntent ==
    \E req \in Requests :
        /\ Route(req, persistent, "ok") = "HelpIntentHandler"
        /\ Serve(req, Env("ok", "", NoTime, ""), "HelpIntentHandler", HelpHandle(req.apl))
        /\ UNCHANGED <<persistent, captured, saved>>

CancelOrStopIntent ==
    \E req \in Requests :
        /\ Route(req, persistent, "ok") = "CancelOrStopIntentHandler"
        /\ Serve(req, Env("ok", "", NoTime, ""), "CancelOrStopIntentHandler",
                 CancelOrStopHandle(req.apl))
        /\ UNCHANGED <<persistent, captured, saved>>

FallbackIntent ==
    \E req \in Requests :
        /\ Route(req, persistent, "ok") = "FallbackIntentHandler"
        /\ Serve(req, Env("ok", "", NoTime, ""), "FallbackIntentHandler", FallbackHandle)
        /\ UNCHANGED <<persistent, captured, saved>>

\* Mutant: the session's end clears what is stored.
SessionEndedRequestClears ==
    \E req \in Requests :
        /\ Route(req, persistent, "ok") = "SessionEndedRequestHandler"
        /\ Serve(req, Env("ok", "", NoTime, ""), "SessionEndedRequestHandler",
                 SessionEndedHandle)
        /\ persistent' = NoAttributes
        /\ UNCHANGED <<captured, saved>>

SessionEndedRequest ==
    \E req \in Requests :
        /\ Route(req, persistent, "ok") = "SessionEndedRequestHandler"
        /\ Serve(req, Env("ok", "", NoTime, ""), "SessionEndedRequestHandler",
                 SessionEndedHandle)
        /\ UNCHANGED <<persistent, captured, saved>>

IntentReflector ==
    \E req \in Requests :
        /\ Route(req, persistent, "ok") = "IntentReflectorHandler"
        /\ Serve(req, Env("ok", "", NoTime, ""), "IntentReflectorHandler",
                 IntentReflectorHandle(req.intent))
        /\ UNCHANGED <<persistent, captured, saved>>

\* A request for which no handler is chosen: the attributes could not be
\* loaded, or no can_handle accepts the request.
Unrouted ==
    \E req \in Requests, load \in {"ok", "raises"} :
        /\ Route(req, persistent, load) = ""
        /\ Serve(req, Env(load, "", NoTime, ""), "", Raises(RouteRaises(load)))
        /\ UNCHANGED <<persistent, captured, saved>>

Next ==
    \/ HasBirthdayLaunchRequest
    \/ LaunchRequest
    \/ CaptureBirthdayIntent
    \/ HelpIntent
    \/ CancelOrStopIntent
    \/ FallbackIntent
    \/ SessionEndedRequest
    \/ IntentReflector
    \/ Unrouted

Spec == Init /\ [][Next]_vars

(***************************************************************************)
(* Properties.                                                             *)
(***************************************************************************)
\* The response returned for the last request.
TheResponse == responses[1]

IsGreeting(resp) == resp.speech.words = <<"Happy", "{}{}", "birthday!">>

IsCountdown(resp) ==
    /\ Len(resp.speech.words) = 13
    /\ resp.speech.words[1] = "Welcome"
    /\ resp.speech.words[8] = "{days}"

\* The calendar days from the day the clock was read on to the next
\* occurrence the launch computed.
DaysToNext == ToOrdinal(locals.next_birthday) - ToOrdinal(env.now_time)

\* now's calendar date lies after month m, day d of now's year.
NowAfter(m, d) ==
    \/ env.now_time.month > m
    \/ env.now_time.month = m /\ env.now_time.day > d

\* The stored birth year, day and the month index computed from the record.
BirthYear == IntOf(persistent["year"])

BirthDay == IntOf(persistent["day"])

BirthMonth == locals.month_as_index

\* C1: whenever the launch computation produces an outcome, daysUntilNext is
\* 0 exactly when isToday holds; the greeting is spoken exactly when the day
\* difference between now and the next occurrence is 0 and the countdown
\* exactly when it is at least 1.
C1_DaysZeroIffToday ==
    locals.computed =>
        /\ (locals.diff_days = 0) <=> locals.is_today
        /\ locals.diff_days = Abs(DaysToNext)
        /\ IsGreeting(TheResponse) <=> (locals.diff_days = 0)
        /\ IsCountdown(TheResponse) <=> (locals.diff_days >= 1)
        /\ IsCountdown(TheResponse) => TheResponse.speech.days = locals.diff_days

C1_Witness ==
    /\ locals.computed
    /\ locals.is_today
    /\ locals.diff_days = 0
    /\ IsGreeting(TheResponse)

\* C2 as claimed: the reference year is now.year when now's calendar date is
\* the birthday's month and day, and now.year + 1 in every other case.
C2_Claimed ==
    locals.computed =>
        locals.current_year =
            IF env.now_time.month = BirthMonth /\ env.now_time.day = BirthDay
            THEN env.now_time.year
            ELSE env.now_time.year + 1

\* C2 as amended: the reference year is now.year when now's calendar date is
\* on or before the birthday's month and day of the current year (the
\* birthday is today or later this year), and now.year + 1 exactly when the
\* birthday was earlier this year.
C2_ReferenceYear ==
    locals.computed =>
        locals.current_year =
            IF NowAfter(BirthMonth, BirthDay)
            THEN env.now_time.year + 1
            ELSE env.now_time.year

C2_Witness ==
    /\ locals.computed
    /\ ~NowAfter(BirthMonth, BirthDay)
    /\ ~(env.now_time.month = BirthMonth /\ env.now_time.day = BirthDay)
    /\ locals.current_year = env.now_time.year

\* C3: whenever an outcome is produced, the next occurrence is never before
\* now: it is date(now.year, month, day) when now is on or before that date
\* and date(now.year + 1, month, day) when now is strictly after it, and
\* ageReached is the year of that next occurrence minus the birth year.
C3_NextOccurrence ==
    locals.computed =>
        /\ DaysToNext >= 0
        /\ locals.next_birthday =
              IF NowAfter(BirthMonth, BirthDay)
              THEN DateTime(env.now_time.year + 1, BirthMonth, BirthDay)
              ELSE DateTime(env.now_time.year, BirthMonth, BirthDay)
        /\ locals.age = locals.next_birthday.year - BirthYear
        /\ TheResponse.speech.birthday_num = IntToStr(locals.next_birthday.year - BirthYear)

C3_Witness ==
    /\ locals.computed
    /\ NowAfter(BirthMonth, BirthDay)
    /\ locals.next_birthday.year = env.now_time.year + 1
    /\ locals.age = env.now_time.year + 1 - BirthYear

\* The suffix the claimed rule gives a last digit.
SuffixOfDigit(d) ==
    IF d = 1 THEN "st" ELSE IF d = 2 THEN "nd" ELSE IF d = 3 THEN "rd" ELSE "th"

\* C4 as claimed: for every ageReached the computation produces, negative
\* values included, the suffix is the one of ageReached mod 10.
C4_Claimed ==
    locals.computed => locals.ordinal = SuffixOfDigit(locals.age % 10)

\* C4 as amended: the suffix is the one of the last decimal digit of
\* ageReached, that is of |ageReached| mod 10 (ageReached mod 10 when
\* ageReached >= 0), with no exception for 11, 12 and 13; it is the suffix
\* spoken.
C4_OrdinalOfLastDigit ==
    locals.computed =>
        /\ locals.ordinal = SuffixOfDigit(Abs(locals.age) % 10)
        /\ TheResponse.speech.suffix = locals.ordinal
        /\ locals.age = locals.current_year - BirthYear

C4_Witness ==
    /\ locals.computed
    /\ locals.age < 0
    /\ Abs(locals.age) % 10 = 1
    /\ locals.ordinal = "st"
    /\ TheResponse.speech.suffix = "st"

\* calendar.month_name, in lower case.
MonthNames ==
    {<<"j","a","n","u","a","r","y">>,
     <<"f","e","b","r","u","a","r","y">>,
     <<"m","a","r","c","h">>,
     <<"a","p","r","i","l">>,
     <<"m","a","y">>,
     <<"j","u","n","e">>,
     <<"j","u","l","y">>,
     <<"a","u","g","u","s","t">>,
     <<"s","e","p","t","e","m","b","e","r">>,
     <<"o","c","t","o","b","e","r">>,
     <<"n","o","v","e","m","b","e","r">>,
     <<"d","e","c","e","m","b","e","r">>}

LowerCase(s) == [i \in 1..Len(s) |-> ToLower(s[i])]

\* The text is, whatever its case, a full English month name or the first
\* three letters of one.
IsMonthName(text) ==
    \E n \in MonthNames : LowerCase(text) = n \/ LowerCase(text) = SubSeq(n, 1, 3)

\* C5: a launch yields a countdown or greeting only when the stored month is,
\* case-insensitively, a full English month name or its 3-letter
\* abbreviation; every other text ends in the apology.
C5_Claimed ==
    (/\ handler = "HasBirthdayLaunchRequestHandler"
     /\ ~persistent["month"].none
     /\ ~IsMonthName(persistent["month"].s)) =>
        /\ ~locals.computed
        /\ ~IsGreeting(TheResponse)
        /\ ~IsCountdown(TheResponse)
        /\ env.tz = "ok" => raised = "ValueError"

\* C6: the greeting form is spoken when isToday, the countdown form
\* otherwise, singular ("is" / "day") exactly when daysUntilNext = 1 and
\* plural ("are" / "days") for every other count; age and ordinal are those
\* of the next occurrence.
C6_PhraseSelection ==
    locals.computed =>
        /\ TheResponse.speech.birthday_num = IntToStr(locals.next_birthday.year - BirthYear)
        /\ TheResponse.speech.suffix = locals.ordinal
        /\ locals.is_today <=> (DaysToNext = 0)
        /\ locals.is_today => TheResponse.speech.words = <<"Happy", "{}{}", "birthday!">>
        /\ ~locals.is_today =>
              /\ TheResponse.speech.days = DaysToNext
              /\ TheResponse.speech.words =
                    IF DaysToNext = 1
                    THEN <<"Welcome", "back.", "It", "looks", "like", "there", "is",
                           "{days}", "day", "until", "your", "{birthday_num}{suffix}",
                           "birthday">>
                    ELSE <<"Welcome", "back.", "It", "looks", "like", "there", "are",
                           "{days}", "days", "until", "your", "{birthday_num}{suffix}",
                           "birthday">>

C6_Witness ==
    /\ locals.computed
    /\ ~locals.is_today
    /\ TheResponse.speech.days = 1
    /\ TheResponse.speech.words[7] = "is"
    /\ TheResponse.speech.words[9] = "day"

\* C7 as claimed: the stored record is absent when no CaptureBirthdayIntent
\* has been handled, and otherwise is exactly the slot values of the most
\* recent CaptureBirthdayIntent.
C7_Claimed ==
    /\ ~captured => persistent = NoAttributes
    /\ handler = "CaptureBirthdayIntentHandler" => persistent = request.slots

\* C7 as amended: the stored record is absent when no CaptureBirthdayIntent
\* has been saved, and otherwise is exactly the {year, month, day} slot values
\* of the most recent CaptureBirthdayIntent whose save succeeded (a capture
\* whose save fails leaves the record as it was); each saved capture replaces
\* the whole record and no request removes it.
C7_RecordIsLastSavedCapture ==
    /\ persistent = saved
    /\ ~captured => persistent = NoAttributes
    /\ persistent # NoAttributes => DOMAIN persistent = AttrKeys
    /\ (handler = "CaptureBirthdayIntentHandler" /\ env.save = "ok") =>
            persistent = request.slots

C7_Witness ==
    /\ handler = "CaptureBirthdayIntentHandler"
    /\ env.save = "ok"
    /\ request.slots["day"].none
    /\ persistent = request.slots

\* The last request failed: an exception was raised while it was served, or
\* the Settings API call raised inside the try block.
Failed == raised # "none" \/ env.tz = "raises"

\* The month text of the stored record does not start like a month name.
UnrecognisedMonth ==
    /\ ~persistent["month"].none
    /\ ~InList(month_abbr, Title(Prefix(persistent["month"].s, 3)))

Apologies == {Sorry, ConnectionProblem}

\* C8: every failure while serving a request (unrecognised month text, a date
\* that cannot be constructed, a failed or unusable time zone lookup, a failed
\* load or save) ends the request with exactly one response that speaks a fixed
\* apology; no fault leaves the skill and the response holds no countdown or
\* greeting.
C8_FailuresEndInApology ==
    request.type # "" =>
        /\ ~escaped
        /\ Len(responses) = 1
        /\ (\/ Failed
            \/ env.load = "raises"
            \/ env.save = "raises"
            \/ env.tz = "unusable"
            \/ (handler = "HasBirthdayLaunchRequestHandler" /\ env.tz = "ok"
                /\ (\/ UnrecognisedMonth
                    \/ ~ValidDate(env.now_time.year,
                                  ListIndex(month_abbr,
                                            Title(Prefix(persistent["month"].s, 3))),
                                  BirthDay)))) =>
              /\ TheResponse.speech \in Apologies
              /\ TheResponse.reprompt = ""
              /\ TheResponse.directive = ""
              /\ ~locals.computed
              /\ ~IsGreeting(TheResponse)
              /\ ~IsCountdown(TheResponse)

C8_Witness ==
    /\ handler = "HasBirthdayLaunchRequestHandler"
    /\ env.tz = "ok"
    /\ UnrecognisedMonth
    /\ raised = "ValueError"
    /\ responses = <<Response(Sorry, "", "")>>

\* C9: when the time zone lookup raises during a launch with a stored record,
\* the response speaks only the connection-problem message, with no countdown,
\* no greeting and no visual directive even on a device that supports visuals,
\* no date is computed, and the stored record is unchanged.
C9_LookupFailureStopsLaunch ==
    (handler = "HasBirthdayLaunchRequestHandler" /\ env.tz = "raises") =>
        /\ responses = <<Response(ConnectionProblem, "", "")>>
        /\ raised = "none"
        /\ ~locals.computed
        /\ persistent = saved

C9_Witness ==
    /\ handler = "HasBirthdayLaunchRequestHandler"
    /\ env.tz = "raises"
    /\ request.apl
    /\ TheResponse.speech = ConnectionProblem
    /\ TheResponse.directive = ""

\* The stored record holds all of year, month and day.
HasRecord == AttrKeys \subseteq DOMAIN persistent

\* The handler the claimed routing gives the last request.
ClaimedHandler ==
    IF request.type = "LaunchRequest"
    THEN (IF HasRecord THEN "HasBirthdayLaunchRequestHandler" ELSE "LaunchRequestHandler")
    ELSE IF request.type = "SessionEndedRequest" THEN "SessionEndedRequestHandler"
    ELSE IF request.type # "IntentRequest" THEN ""
    ELSE IF request.intent = "CaptureBirthdayIntent" THEN "CaptureBirthdayIntentHandler"
    ELSE IF request.intent = "AMAZON.HelpIntent" THEN "HelpIntentHandler"
    ELSE IF request.intent \in {"AMAZON.CancelIntent", "AMAZON.StopIntent"}
         THEN "CancelOrStopIntentHandler"
    ELSE IF request.intent = "AMAZON.FallbackIntent" THEN "FallbackIntentHandler"
    ELSE "IntentReflectorHandler"

\* C10 as claimed: every request is served by the first registered handler
\* whose can_handle accepts it: a LaunchRequest by the countdown handler
\* exactly when the record holds year, month and day and by the first-time
\* prompt otherwise, the named intents by their own handlers, the reflector
\* only for an intent no earlier handler accepts.
C10_Claimed ==
    request.type # "" =>
        /\ handler = ClaimedHandler
        /\ handler = "LaunchRequestHandler" => TheResponse.speech = Prompt

\* C10 as amended: that routing holds for every request whose stored record
\* loads; when the load raises (the first handler's can_handle reads the
\* record for a request of any type), no request handler serves the request
\* and the catch-all exception handler answers it with its apology.
C10_RoutingWhenRecordLoads ==
    request.type # "" =>
        IF env.load = "raises"
        THEN handler = "" /\ responses = <<Response(Sorry, "", "")>>
        ELSE /\ handler = ClaimedHandler
             /\ handler = "LaunchRequestHandler" => TheResponse.speech = Prompt
             /\ handler = "" => responses = <<Response(Sorry, "", "")>>

C10_Witness ==
    /\ request.type = "LaunchRequest"
    /\ HasRecord
    /\ env.load = "ok"
    /\ handler = "HasBirthdayLaunchRequestHandler"

\* What a launch with the stored record gives when the clock reads hour h of
\* the calendar day the last launch ran on, on a device with or without APL.
LaunchAtHour(h, apl) ==
    HasBirthdayHandle(persistent, "ok", [env.now_time EXCEPT !.hour = h], apl)

\* The outcome of a launch: isToday, ageReached, daysUntilNext and the phrase.
OutcomeOf(result) ==
    <<result.raised, result.locals.computed, result.locals.is_today, result.locals.age,
      result.locals.diff_days, result.response.speech>>

\* C11: the launch outcome is a function of the stored record and the calendar
\* date of now in the user's time zone only: a launch with the same record at
\* any other time of the same calendar day gives the same isToday, ageReached,
\* daysUntilNext and the same spoken phrase.
C11_OutcomeOfDateOnly ==
    (handler = "HasBirthdayLaunchRequestHandler" /\ env.tz = "ok") =>
        \A h \in 0..23, apl \in BOOLEAN :
            OutcomeOf(LaunchAtHour(h, apl)) =
                <<raised, locals.computed, locals.is_today, locals.age,
                  locals.diff_days,
                  IF raised = "none" THEN TheResponse.speech ELSE NoSpeech>>

C11_Witness ==
    /\ handler = "HasBirthdayLaunchRequestHandler"
    /\ locals.computed
    /\ locals.is_today
    /\ env.now_time.hour = 23
    /\ OutcomeOf(LaunchAtHour(0, request.apl)) = OutcomeOf(LaunchAtHour(23, request.apl))

\* C12: only CaptureBirthdayIntent changes the stored record: a request served
\* by any other handler, or answered by an apology without reaching the capture
\* handler, leaves the record exactly as it was.
C12_OnlyCaptureWrites ==
    [][handler' # "CaptureBirthdayIntentHandler" => persistent' = persistent]_vars

C12_Witness ==
    /\ handler = "HasBirthdayLaunchRequestHandler"
    /\ raised # "none"
    /\ persistent # NoAttributes
    /\ persistent = saved

\* C13 as claimed: once a CaptureBirthdayIntent has been saved, every later
\* LaunchRequest is routed to the countdown handler and none is answered with
\* the first-time prompt, whatever the slot values were.
C13_Claimed ==
    (saved # NoAttributes /\ request.type = "LaunchRequest") =>
        /\ handler = "HasBirthdayLaunchRequestHandler"
        /\ TheResponse.speech # Prompt

\* C13 as amended: once a CaptureBirthdayIntent has been saved, no later
\* LaunchRequest is answered with the first-time prompt, whatever the slot
\* values were (missing or malformed ones yield an apology); every later
\* launch whose stored record loads is routed to the countdown handler, and one
\* whose load raises is answered by the catch-all apology.
C13_NoPromptAfterCapture ==
    (saved # NoAttributes /\ request.type = "LaunchRequest") =>
        /\ TheResponse.speech # Prompt
        /\ handler # "LaunchRequestHandler"
        /\ env.load = "ok" => handler = "HasBirthdayLaunchRequestHandler"
        /\ env.load = "raises" => handler = "" /\ TheResponse.speech = Sorry
        /\ (handler = "HasBirthdayLaunchRequestHandler"
            /\ \E k \in AttrKeys : persistent[k].none) =>
                /\ TheResponse.speech \in Apologies
                /\ ~locals.computed

C13_Witness ==
    /\ saved # NoAttributes
    /\ request.type = "LaunchRequest"
    /\ handler = "HasBirthdayLaunchRequestHandler"
    /\ persistent["day"].none
    /\ TheResponse.speech = Sorry

\* The launch got as far as building the birthday's date: the time zone was
\* usable and the stored month text was found in month_abbr.
ReachesDates ==
    /\ handler = "HasBirthdayLaunchRequestHandler"
    /\ env.tz = "ok"
    /\ ~persistent["month"].none
    /\ InList(month_abbr, Title(Prefix(persistent["month"].s, 3)))

StoredMonth == ListIndex(month_abbr, Title(Prefix(persistent["month"].s, 3)))

\* Day d of month m is a date of year y.
DayExists(y, m, d) ==
    /\ m \in 1..12
    /\ d >= 1
    /\ d <= (IF m = 2 THEN (IF IsLeap(y) THEN 29 ELSE 28)
             ELSE IF m \in {4, 6, 9, 11} THEN 30 ELSE 31)

\* C14: a launch produces a countdown or greeting only when the stored day
\* exists in the stored month in now.year and, if the birthday has passed this
\* year, in now.year + 1; otherwise the date construction fails and the user
\* gets the catch-all apology. A February 29 record yields an outcome only
\* when now.year is a leap year and now is on or before February 29, and
\* daysUntilNext is between 0 and 366 whenever an outcome is produced.
C14_OutcomeOnlyForRealDates ==
    /\ locals.computed => ReachesDates
    /\ ReachesDates =>
          LET exists ==
                /\ DayExists(env.now_time.year, StoredMonth, BirthDay)
                /\ NowAfter(StoredMonth, BirthDay) =>
                      DayExists(env.now_time.year + 1, StoredMonth, BirthDay)
          IN  /\ locals.computed <=> exists
              /\ ~exists => /\ raised = "ValueError"
                            /\ responses = <<Response(Sorry, "", "")>>
              /\ (locals.computed /\ StoredMonth = 2 /\ BirthDay = 29) =>
                    /\ IsLeap(env.now_time.year)
                    /\ ~NowAfter(2, 29)
              /\ locals.computed =>
                    /\ locals.diff_days \in 0..366
                    /\ TheResponse.speech.days \in 0..366

C14_Witness ==
    /\ ReachesDates
    /\ StoredMonth = 2
    /\ BirthDay = 29
    /\ IsLeap(env.now_time.year)
    /\ NowAfter(2, 29)
    /\ raised = "ValueError"
    /\ responses = <<Response(Sorry, "", "")>>

====
